---- MODULE Spec2Model ----
(***************************************************************************)
(* Makeline service: order intake (GET /order/fetch), lookup               *)
(* (GET /order/:id) and status update (PUT /order) handlers of             *)
(* src/main.go, over the repository and queue collaborators.               *)
(*                                                                         *)
(* Strings that the code inspects character by character (order ids) are   *)
(* sequences of one-character strings: "07" is <<"0", "7">>.               *)
(***************************************************************************)
EXTENDS Integers, Sequences, FiniteSets, TLC

\* ------------------------------------------------------------------ bounds

\* Longest order id a request carries.
MaxIdLen == 3

\* Most messages visible in the queue at once.
MaxQueue == 2

\* ------------------------------------------------------- the Order entity

\* Status enumeration (integer-backed, ordered).
New == 0
Pending == 1
Processing == 2
Complete == 3

Statuses == {New, Pending, Processing, Complete}

\* The status values a JSON body can carry: the enumeration and one integer
\* outside it.
BodyStatuses == Statuses \cup {Complete + 1}

\* Characters of an order id: two digits, the two signs, one letter.
Chars == {"0", "7", "+", "-", "a"}

RECURSIVE StringsUpTo(_)
StringsUpTo(n) ==
    IF n = 0 THEN {<<>>}
    ELSE LET shorter == StringsUpTo(n - 1)
         IN  shorter \cup {Append(s, c) : s \in {t \in shorter : Len(t) = n - 1}, c \in Chars}

\* Order ids a request can carry.
IdStrings == StringsUpTo(MaxIdLen)

\* Order ids the upstream order service puts on the queue.
QueueIds == {<<"7">>, <<"0", "7">>}

\* ----------------------------------------------------------------- strconv

\* ch - '0' for a decimal digit; anything else is out of 0..9.
DigitVal(c) ==
    CASE c = "0" -> 0
      [] c = "1" -> 1
      [] c = "2" -> 2
      [] c = "3" -> 3
      [] c = "4" -> 4
      [] c = "5" -> 5
      [] c = "6" -> 6
      [] c = "7" -> 7
      [] c = "8" -> 8
      [] c = "9" -> 9
      [] OTHER -> 10

DigitChar(d) ==
    CASE d = 0 -> "0"
      [] d = 1 -> "1"
      [] d = 2 -> "2"
      [] d = 3 -> "3"
      [] d = 4 -> "4"
      [] d = 5 -> "5"
      [] d = 6 -> "6"
      [] d = 7 -> "7"
      [] d = 8 -> "8"
      [] d = 9 -> "9"

RECURSIVE ParseDigits(_, _)
ParseDigits(s, n) ==
    IF s = <<>> THEN [err |-> FALSE, val |-> n]
    ELSE IF DigitVal(Head(s)) > 9 THEN [err |-> TRUE, val |-> 0]
    ELSE ParseDigits(Tail(s), n * 10 + DigitVal(Head(s)))

\* strconv.Atoi on a string short enough for its fast path (fewer than 19
\* characters, so no range error): an optional sign, then at least one
\* digit and digits only.
Atoi(s) ==
    IF s = <<>> THEN [err |-> TRUE, val |-> 0]
    ELSE LET signed == Head(s) = "+" \/ Head(s) = "-"
             digits == IF signed THEN Tail(s) ELSE s
         IN  IF digits = <<>> THEN [err |-> TRUE, val |-> 0]
             ELSE LET r == ParseDigits(digits, 0)
                  IN  IF r.err THEN r
                      ELSE [err |-> FALSE,
                            val |-> IF Head(s) = "-" THEN 0 - r.val ELSE r.val]

RECURSIVE FormatUint(_)
FormatUint(n) ==
    IF n < 10 THEN <<DigitChar(n)>>
    ELSE Append(FormatUint(n \div 10), DigitChar(n % 10))

\* strconv.FormatInt(n, 10).
FormatInt(n) ==
    IF n < 0 THEN <<"-">> \o FormatUint(0 - n) ELSE FormatUint(n)

\* strconv.Itoa.
Itoa(n) == FormatInt(n)

\* -------------------------------------------------------------- repository

NoErr == "none"
NotFound == "NotFound"
RepositoryError == "RepositoryError"
QueueError == "QueueError"

HasOrder(s, id) == \E i \in 1..Len(s) : s[i].orderId = id

\* One record of a bulk insert with a duplicate key treated as an error.
InsertOne_DuplicateFails(s, o) ==
    IF HasOrder(s, o.orderId) THEN [err |-> RepositoryError, store |-> s]
    ELSE [err |-> NoErr, store |-> Append(s, o)]

\* One record of a bulk insert with no key check at all.
InsertOne_NoKeyCheck(s, o) == [err |-> NoErr, store |-> Append(s, o)]

\* One record of a bulk insert with a duplicate key overwriting the stored
\* record.
InsertOne_Overwrites(s, o) ==
    IF HasOrder(s, o.orderId)
    THEN [err |-> NoErr,
          store |-> [i \in 1..Len(s) |-> IF s[i].orderId = o.orderId THEN o ELSE s[i]]]
    ELSE [err |-> NoErr, store |-> Append(s, o)]

\* One record of a bulk insert: a duplicate key is success with no effect.
InsertOne(s, o) ==
    IF HasOrder(s, o.orderId) THEN [err |-> NoErr, store |-> s]
    ELSE [err |-> NoErr, store |-> Append(s, o)]

RECURSIVE InsertAll(_, _)
InsertAll(s, orders) ==
    IF orders = <<>> THEN [err |-> NoErr, store |-> s]
    ELSE LET r == InsertOne(s, Head(orders))
         IN  IF r.err # NoErr THEN r ELSE InsertAll(r.store, Tail(orders))

\* repo.InsertOrders; `fail` is a failure of the whole call.
InsertOrders(s, orders, fail) ==
    IF fail THEN [err |-> RepositoryError, store |-> s]
    ELSE LET r == InsertAll(s, orders)
         IN  IF r.err # NoErr THEN [err |-> r.err, store |-> s] ELSE r

\* repo.GetPendingOrders.
GetPendingOrders(s, fail) ==
    IF fail THEN [err |-> RepositoryError, orders |-> <<>>]
    ELSE [err |-> NoErr, orders |-> SelectSeq(s, LAMBDA o : o.status = Pending)]

\* repo.GetOrder.
GetOrder(s, id, fail) ==
    IF fail THEN [err |-> RepositoryError, orders |-> <<>>]
    ELSE IF ~HasOrder(s, id) THEN [err |-> NotFound, orders |-> <<>>]
    ELSE [err |-> NoErr, orders |-> SelectSeq(s, LAMBDA o : o.orderId = id)]

\* repo.UpdateOrder with no filter on the order id: every record is replaced
\* by the order given.
UpdateOrder_ReplacesEvery(s, order, fail) ==
    IF fail THEN [err |-> RepositoryError, store |-> s]
    ELSE IF ~HasOrder(s, order.orderId) THEN [err |-> NotFound, store |-> s]
    ELSE [err |-> NoErr, store |-> [i \in 1..Len(s) |-> order]]

\* repo.UpdateOrder.
UpdateOrder(s, order, fail) ==
    IF fail THEN [err |-> RepositoryError, store |-> s]
    ELSE IF ~HasOrder(s, order.orderId) THEN [err |-> NotFound, store |-> s]
    ELSE [err |-> NoErr,
          store |-> [i \in 1..Len(s) |->
                        IF s[i].orderId = order.orderId
                        THEN [s[i] EXCEPT !.status = order.status]
                        ELSE s[i]]]

\* ------------------------------------------------------------------- state

VARIABLES
    store,   \* the stored order records, in insertion order
    queue,   \* order ids of the messages visible in the queue
    last,    \* the handler call whose response is being written, if any
    pc,      \* per intake worker: where its fetchOrders call stands
    batch,   \* per intake worker: the batch it pulled, stamped
    idx      \* per intake worker: the next record of its batch to insert

vars == <<store, queue, last, pc, batch, idx>>

Workers == {1, 2}

NoCall ==
    [op |-> "none", parsed |-> FALSE, reqId |-> <<>>, reqStatus |-> New,
     code |-> 0, fault |-> "none", err |-> NoErr, repoId |-> <<>>, calls |-> 0,
     polled |-> <<>>, inserted |-> <<>>, body |-> <<>>, before |-> <<>>]

Init ==
    /\ store = <<>>
    /\ queue = <<>>
    /\ last = NoCall
    /\ pc = [w \in Workers |-> "idle"]
    /\ batch = [w \in Workers |-> <<>>]
    /\ idx = [w \in Workers |-> 1]

\* No handler call is under way.
Idle == last.op = "none" /\ \A w \in Workers : pc[w] = "idle"

\* The response of the completed call has gone out to the client.
Respond ==
    /\ last.op # "none"
    /\ last' = NoCall
    /\ UNCHANGED <<store, queue, pc, batch, idx>>

\* ------------------------------------------------------------------- queue

\* The queue makes a message visible: a first delivery, or a redelivery.
Deliver(id) ==
    /\ Len(queue) < MaxQueue
    /\ queue' = Append(queue, id)
    /\ UNCHANGED <<store, last, pc, batch, idx>>

\* getOrdersFromQueue: one non-blocking poll that takes every visible
\* message; `sts` are the status fields the message bodies carry.
getOrdersFromQueue(q, sts, fail) ==
    IF fail THEN [err |-> QueueError, orders |-> <<>>]
    ELSE [err |-> NoErr,
          orders |-> [i \in 1..Len(q) |-> [orderId |-> q[i], status |-> sts[i]]]]

\* ---------------------------------------------------------------- handlers

\* fetchOrders without the stamping loop.
StampPending_Skipped(orders) == orders

\* "Set all new orders to Pending".
StampPending(orders) ==
    [i \in 1..Len(orders) |-> [orders[i] EXCEPT !.status = Pending]]

\* fetchOrders with one of its steps changed: "insertErrorIgnored" goes on to
\* the pending query after a failed insert, "listsOnlyNew" answers with the
\* batch just inserted instead of the pending query's result.
FetchResult_Variant(s, q, sts, fault, v) ==
    LET polled == getOrdersFromQueue(q, sts, fault = "queue")
        base == [NoCall EXCEPT !.op = "fetchOrders", !.before = s]
    IN  IF polled.err # NoErr
        THEN [store |-> s, queue |-> q,
              last |-> [base EXCEPT !.code = 500, !.fault = fault, !.err = polled.err]]
        ELSE
        LET newOrders == [i \in 1..Len(polled.orders) |->
                             [polled.orders[i] EXCEPT !.status = Pending]]
            n1 == IF Len(newOrders) > 0 THEN 1 ELSE 0
            ins == IF Len(newOrders) > 0
                   THEN InsertOrders(s, newOrders, fault = "insert")
                   ELSE [err |-> NoErr, store |-> s]
            got == [base EXCEPT !.polled = polled.orders, !.calls = n1,
                                !.inserted = IF n1 = 1 THEN newOrders ELSE <<>>,
                                !.fault = IF fault = "insert" THEN fault ELSE "none"]
        IN  IF ins.err # NoErr /\ v # "insertErrorIgnored"
            THEN [store |-> ins.store, queue |-> <<>>,
                  last |-> [got EXCEPT !.code = 500, !.err = ins.err]]
            ELSE
            LET pend == GetPendingOrders(ins.store, fault = "list")
                put == [got EXCEPT !.calls = n1 + 1]
            IN  IF pend.err # NoErr
                THEN [store |-> ins.store, queue |-> <<>>,
                      last |-> [put EXCEPT !.code = 500, !.err = pend.err, !.fault = fault]]
                ELSE [store |-> ins.store, queue |-> <<>>,
                      last |-> [put EXCEPT !.code = 200,
                                           !.body = IF v = "listsOnlyNew" THEN newOrders
                                                    ELSE pend.orders]]

\* fetchOrders going on to the pending query after a failed insert.
FetchResult_InsertErrorIgnored(s, q, sts, fault) ==
    FetchResult_Variant(s, q, sts, fault, "insertErrorIgnored")

\* fetchOrders answering with the batch it inserted, not with the pending
\* orders.
FetchResult_ListsOnlyNew(s, q, sts, fault) ==
    FetchResult_Variant(s, q, sts, fault, "listsOnlyNew")

\* The whole of one fetchOrders call on storage s and queue q; `fault` names
\* the collaborator call that fails, if one does.
FetchResult(s, q, sts, fault) ==
    LET polled == getOrdersFromQueue(q, sts, fault = "queue")
        base == [NoCall EXCEPT !.op = "fetchOrders", !.before = s]
    IN  IF polled.err # NoErr
        THEN [store |-> s, queue |-> q,
              last |-> [base EXCEPT !.code = 500, !.fault = fault, !.err = polled.err]]
        ELSE
        LET newOrders == StampPending(polled.orders)
            n1 == IF Len(newOrders) > 0 THEN 1 ELSE 0
            ins == IF Len(newOrders) > 0
                   THEN InsertOrders(s, newOrders, fault = "insert")
                   ELSE [err |-> NoErr, store |-> s]
            got == [base EXCEPT !.polled = polled.orders, !.calls = n1,
                                !.inserted = IF n1 = 1 THEN newOrders ELSE <<>>]
        IN  IF ins.err # NoErr
            THEN [store |-> ins.store, queue |-> <<>>,
                  last |-> [got EXCEPT !.code = 500, !.err = ins.err,
                                       !.fault = IF fault = "insert" THEN fault ELSE "none"]]
            ELSE
            LET pend == GetPendingOrders(ins.store, fault = "list")
                put == [got EXCEPT !.calls = n1 + 1]
            IN  IF pend.err # NoErr
                THEN [store |-> ins.store, queue |-> <<>>,
                      last |-> [put EXCEPT !.code = 500, !.err = pend.err, !.fault = fault]]
                ELSE [store |-> ins.store, queue |-> <<>>,
                      last |-> [put EXCEPT !.code = 200, !.body = pend.orders]]

Faults == {"none", "queue", "insert", "list"}

\* GET /order/fetch, one call from start to end.
fetchOrders ==
    /\ Idle
    /\ \E sts \in [1..Len(queue) -> Statuses], fault \in Faults :
          /\ fault = "insert" => Len(queue) > 0
          /\ LET r == FetchResult(store, queue, sts, fault)
             IN  /\ store' = r.store
                 /\ queue' = r.queue
                 /\ last' = r.last
    /\ UNCHANGED <<pc, batch, idx>>

\* The id getOrder hands to the repository, left as the route gave it.
GetSanitizedOrderId_Raw(param) == param

\* The id getOrder hands to the repository.
GetSanitizedOrderId(param) == FormatInt(Atoi(param).val)

\* The whole of one getOrder call on storage s.
GetResult(s, param, fail) ==
    LET base == [NoCall EXCEPT !.op = "getOrder", !.before = s, !.parsed = TRUE,
                               !.reqId = param]
    IN  IF Atoi(param).err THEN [base EXCEPT !.code = 400]
        ELSE
        LET sanitizedOrderId == GetSanitizedOrderId(param)
            r == GetOrder(s, sanitizedOrderId, fail)
            called == [base EXCEPT !.repoId = sanitizedOrderId, !.calls = 1,
                                   !.fault = IF fail THEN "get" ELSE "none"]
        IN  IF r.err # NoErr THEN [called EXCEPT !.code = 500, !.err = r.err]
            ELSE [called EXCEPT !.code = 200, !.body = r.orders]

\* GET /order/:id; the router matches the route only with a non-empty :id.
getOrder ==
    /\ Idle
    /\ \E param \in IdStrings \ {<<>>}, fail \in BOOLEAN :
          last' = GetResult(store, param, fail)
    /\ UNCHANGED <<store, queue, pc, batch, idx>>

\* The status gate letting Pending through as well.
StatusAllowed_PendingToo(status) == status # New /\ status <= Complete

\* The status gate letting every status through.
StatusAllowed_Any(status) == TRUE

\* "Allow specific statuses for updates".
StatusAllowed(status) == ~(status # Processing /\ status # Complete)

\* The id updateOrder hands to the repository, left as the body gave it.
UpdateSanitizedOrderId_Raw(orderId) == orderId

\* "Sanitize the order ID": the id updateOrder hands to the repository.
UpdateSanitizedOrderId(orderId) == Itoa(Atoi(orderId).val)

\* The HTTP status after repo.UpdateOrder, with its error dropped.
UpdateStatusCode_ErrorDropped(err) == 202

\* The HTTP status after repo.UpdateOrder.
UpdateStatusCode(err) == IF err # NoErr THEN 500 ELSE 202

\* updateOrder with the status gate placed after the repository call.
UpdateResult_GateAfterWrite(s, req, fail) ==
    LET base == [NoCall EXCEPT !.op = "updateOrder", !.before = s, !.parsed = req.parsed,
                               !.reqId = req.orderId, !.reqStatus = req.status]
        bad == [store |-> s, last |-> [base EXCEPT !.code = 400]]
    IN  IF ~req.parsed THEN bad
        ELSE IF req.orderId = <<>> THEN bad
        ELSE IF Atoi(req.orderId).err THEN bad
        ELSE
        LET order == [orderId |-> UpdateSanitizedOrderId(req.orderId), status |-> req.status]
            r == UpdateOrder(s, order, fail)
            called == [base EXCEPT !.repoId = order.orderId, !.calls = 1, !.err = r.err,
                                   !.fault = IF fail THEN "update" ELSE "none"]
        IN  IF ~StatusAllowed(req.status)
            THEN [store |-> r.store, last |-> [called EXCEPT !.code = 400]]
            ELSE [store |-> r.store, last |-> [called EXCEPT !.code = UpdateStatusCode(r.err)]]

\* updateOrder rejecting an update that does not move the stored status
\* forward.
UpdateResult_ForwardOnly(s, req, fail) ==
    LET base == [NoCall EXCEPT !.op = "updateOrder", !.before = s, !.parsed = req.parsed,
                               !.reqId = req.orderId, !.reqStatus = req.status]
        bad == [store |-> s, last |-> [base EXCEPT !.code = 400]]
    IN  IF ~req.parsed THEN bad
        ELSE IF req.orderId = <<>> THEN bad
        ELSE IF ~StatusAllowed(req.status) THEN bad
        ELSE IF Atoi(req.orderId).err THEN bad
        ELSE
        LET order == [orderId |-> UpdateSanitizedOrderId(req.orderId), status |-> req.status]
            r == UpdateOrder(s, order, fail)
            called == [base EXCEPT !.repoId = order.orderId, !.calls = 1, !.err = r.err,
                                   !.fault = IF fail THEN "update" ELSE "none"]
        IN  IF \E i \in 1..Len(s) : s[i].orderId = order.orderId /\ s[i].status >= order.status
            THEN bad
            ELSE [store |-> r.store, last |-> [called EXCEPT !.code = UpdateStatusCode(r.err)]]

\* The whole of one updateOrder call on storage s. req.parsed says whether
\* BindJSON could unmarshal the body.
UpdateResult(s, req, fail) ==
    LET base == [NoCall EXCEPT !.op = "updateOrder", !.before = s, !.parsed = req.parsed,
                               !.reqId = req.orderId, !.reqStatus = req.status]
        bad == [store |-> s, last |-> [base EXCEPT !.code = 400]]
    IN  IF ~req.parsed THEN bad
        ELSE IF req.orderId = <<>> THEN bad
        ELSE IF ~StatusAllowed(req.status) THEN bad
        ELSE IF Atoi(req.orderId).err THEN bad
        ELSE
        LET order == [orderId |-> UpdateSanitizedOrderId(req.orderId), status |-> req.status]
            r == UpdateOrder(s, order, fail)
            called == [base EXCEPT !.repoId = order.orderId, !.calls = 1, !.err = r.err,
                                   !.fault = IF fail THEN "update" ELSE "none"]
        IN  [store |-> r.store, last |-> [called EXCEPT !.code = UpdateStatusCode(r.err)]]

\* The bodies a PUT /order can carry: one that does not unmarshal, and every
\* order id with every status value.
UpdateRequests ==
    {[parsed |-> FALSE, orderId |-> <<>>, status |-> New]}
        \cup [parsed : {TRUE}, orderId : IdStrings, status : BodyStatuses]

\* PUT /order.
updateOrder ==
    /\ Idle
    /\ \E req \in UpdateRequests, fail \in BOOLEAN :
          LET r == UpdateResult(store, req, fail)
          IN  /\ store' = r.store
              /\ last' = r.last
    /\ UNCHANGED <<queue, pc, batch, idx>>

\* ------------------------------------------- fetchOrders, call by call
\* Two fetchOrders calls served at once, each a sequence of collaborator
\* calls: the queue poll, the insert (the store takes the records of a bulk
\* insert one at a time, each atomically), the pending query.

\* The poll and the stamping loop.
FetchPoll(w) ==
    /\ pc[w] = "idle"
    /\ \E sts \in [1..Len(queue) -> Statuses], fail \in BOOLEAN :
          LET polled == getOrdersFromQueue(queue, sts, fail)
              newOrders == StampPending(polled.orders)
          IN  IF polled.err # NoErr
              THEN /\ last' = [NoCall EXCEPT !.op = "fetchOrders", !.code = 500,
                                             !.fault = "queue", !.err = polled.err]
                   /\ UNCHANGED <<store, queue, pc, batch, idx>>
              ELSE /\ queue' = <<>>
                   /\ batch' = [batch EXCEPT ![w] = newOrders]
                   /\ idx' = [idx EXCEPT ![w] = 1]
                   /\ pc' = [pc EXCEPT ![w] = IF Len(newOrders) > 0 THEN "insert" ELSE "list"]
                   /\ UNCHANGED <<store, last>>

\* repo.InsertOrders, one record on; the call fails as a whole (fail) only
\* before its first record.
FetchInsert(w) ==
    /\ pc[w] = "insert"
    /\ \E fail \in BOOLEAN :
          /\ fail => idx[w] = 1
          /\ LET r == IF fail THEN [err |-> RepositoryError, store |-> store]
                      ELSE InsertOne(store, batch[w][idx[w]])
             IN  IF r.err # NoErr
                 THEN /\ last' = [NoCall EXCEPT !.op = "fetchOrders", !.code = 500,
                                                !.fault = IF fail THEN "insert" ELSE "none",
                                                !.err = r.err, !.calls = 1]
                      /\ pc' = [pc EXCEPT ![w] = "idle"]
                      /\ batch' = [batch EXCEPT ![w] = <<>>]
                      /\ idx' = [idx EXCEPT ![w] = 1]
                      /\ UNCHANGED <<store, queue>>
                 ELSE /\ store' = r.store
                      /\ idx' = [idx EXCEPT ![w] = idx[w] + 1]
                      /\ pc' = [pc EXCEPT ![w] =
                                   IF idx[w] = Len(batch[w]) THEN "list" ELSE "insert"]
                      /\ UNCHANGED <<queue, last, batch>>

\* repo.GetPendingOrders and the response.
FetchList(w) ==
    /\ pc[w] = "list"
    /\ \E fail \in BOOLEAN :
          LET pend == GetPendingOrders(store, fail)
              n1 == IF Len(batch[w]) > 0 THEN 1 ELSE 0
              base == [NoCall EXCEPT !.op = "fetchOrders", !.calls = n1 + 1]
          IN  last' = IF pend.err # NoErr
                      THEN [base EXCEPT !.code = 500, !.err = pend.err, !.fault = "list"]
                      ELSE [base EXCEPT !.code = 200, !.body = pend.orders]
    /\ pc' = [pc EXCEPT ![w] = "idle"]
    /\ batch' = [batch EXCEPT ![w] = <<>>]
    /\ idx' = [idx EXCEPT ![w] = 1]
    /\ UNCHANGED <<store, queue>>

Next ==
    \/ \E id \in QueueIds : Deliver(id)
    \/ fetchOrders
    \/ getOrder
    \/ updateOrder
    \/ Respond

\* Handler calls served one after another.
Spec == Init /\ [][Next]_vars

NextConc ==
    \/ \E id \in QueueIds : Deliver(id)
    \/ \E w \in Workers : FetchPoll(w)
    \/ \E w \in Workers : FetchInsert(w)
    \/ \E w \in Workers : FetchList(w)

\* Two fetchOrders calls interleaved at their collaborator calls.
SpecConc == Init /\ [][NextConc]_vars

\* ------------------------------------------------------------- properties

\* The number of stored records with this order id.
Count(s, id) == Cardinality({i \in 1..Len(s) : s[i].orderId = id})

IdsOf(s) == {s[i].orderId : i \in 1..Len(s)}

PendingIdsOf(s) == {s[i].orderId : i \in {j \in 1..Len(s) : s[j].status = Pending}}

NoDuplicateIds == \A i, j \in 1..Len(store) : store[i].orderId = store[j].orderId => i = j

DecimalDigits == {"0", "1", "2", "3", "4", "5", "6", "7", "8", "9"}

\* Non-empty and composed of digits only.
IsDigitString(id) == id # <<>> /\ \A i \in 1..Len(id) : id[i] \in DecimalDigits

\* The canonical decimal form of a digit string: its leading zeros dropped.
RECURSIVE StripLeadingZeros(_)
StripLeadingZeros(id) ==
    IF Len(id) > 1 /\ Head(id) = "0" THEN StripLeadingZeros(Tail(id)) ELSE id

\* C1: an intake call whose batch carries an order id that is already stored,
\* or carries one id twice, succeeds (no collaborator failing), and storage
\* then holds exactly one record for every id of the batch; no two stored
\* records ever share an id.
C1_IdempotentInsert ==
    /\ NoDuplicateIds
    /\ (last.op = "fetchOrders" /\ last.fault = "none") =>
          /\ last.code = 200
          /\ \A i \in 1..Len(last.polled) : Count(store, last.polled[i].orderId) = 1

\* C1: an intake call has succeeded on a batch that carried one id twice,
\* an id that was stored before the call.
C1_Witness ==
    /\ last.op = "fetchOrders"
    /\ last.code = 200
    /\ \E i, j \in 1..Len(last.polled) :
          /\ i < j
          /\ last.polled[i].orderId = last.polled[j].orderId
          /\ HasOrder(last.before, last.polled[i].orderId)
    /\ Count(store, last.polled[1].orderId) = 1

\* C2: with two fetchOrders calls interleaved, no two stored records ever
\* share an order id, a call fails only when one of its collaborator calls
\* fails (never because of a duplicate), and once a call has inserted its
\* batch every id of the batch is stored exactly once.
C2_ConcurrentIntake ==
    /\ NoDuplicateIds
    /\ (last.op = "fetchOrders" /\ last.code = 500) => last.fault # "none"
    /\ \A w \in Workers :
          pc[w] = "list" => \A i \in 1..Len(batch[w]) : Count(store, batch[w][i].orderId) = 1

\* C2: both calls hold a batch with the same order id, both have inserted
\* their batch, and the id is stored once.
C2_Witness ==
    /\ pc[1] = "list"
    /\ pc[2] = "list"
    /\ \E i \in 1..Len(batch[1]), j \in 1..Len(batch[2]) :
          /\ batch[1][i].orderId = batch[2][j].orderId
          /\ Count(store, batch[1][i].orderId) = 1

\* C3: no accepted update lowers the stored status of an order.
C3_StatusOnlyAdvances ==
    (last.op = "updateOrder" /\ last.code = 202) =>
        \A i \in 1..Len(store) : store[i].status >= last.before[i].status

\* C4: an accepted update changes a stored status only from Pending to
\* Processing or from Processing to Complete.
C4_NoSkippedStage ==
    (last.op = "updateOrder" /\ last.code = 202) =>
        \A i \in 1..Len(store) :
            store[i].status # last.before[i].status =>
                <<last.before[i].status, store[i].status>>
                    \in {<<Pending, Processing>>, <<Processing, Complete>>}

\* C5: an update whose status is anything but Processing or Complete ends
\* with 400; an update whose status is Processing or Complete, whose order id
\* is a digit string and whose order exists ends with 202 and the order
\* carrying that status, unless the repository call itself fails.
C5_StatusGate ==
    (last.op = "updateOrder" /\ last.parsed) =>
        /\ last.reqStatus \notin {Processing, Complete} => last.code = 400
        /\ ( /\ last.reqStatus \in {Processing, Complete}
             /\ IsDigitString(last.reqId)
             /\ HasOrder(last.before, StripLeadingZeros(last.reqId))
             /\ last.fault = "none" ) =>
                /\ last.code = 202
                /\ \E i \in 1..Len(store) :
                      /\ store[i].orderId = StripLeadingZeros(last.reqId)
                      /\ store[i].status = last.reqStatus

\* C5: an update naming a stored order by a digit-only id was rejected with
\* 400 for its status Pending alone.
C5_Witness ==
    /\ last.op = "updateOrder"
    /\ last.parsed
    /\ last.reqStatus = Pending
    /\ IsDigitString(last.reqId)
    /\ HasOrder(last.before, StripLeadingZeros(last.reqId))
    /\ last.code = 400

\* C6: the list of a successful intake call holds, once each, exactly the
\* orders of its batch that were not stored before and the orders stored
\* before with status Pending; every listed order has status Pending, in the
\* list and in storage.
C6_PendingRoundTrip ==
    (last.op = "fetchOrders" /\ last.code = 200) =>
        LET newIds == IdsOf(last.polled) \ IdsOf(last.before)
        IN  /\ IdsOf(last.body) = newIds \cup PendingIdsOf(last.before)
            /\ Len(last.body) = Cardinality(IdsOf(last.body))
            /\ \A i \in 1..Len(last.body) : last.body[i].status = Pending
            /\ \A i \in 1..Len(store) :
                  store[i].status # Pending => store[i].orderId \notin IdsOf(last.body)

\* C6: an intake call inserted a new order while storage held an order that
\* was not Pending, and listed the new order.
C6_Witness ==
    /\ last.op = "fetchOrders"
    /\ last.code = 200
    /\ IdsOf(last.polled) \ IdsOf(last.before) # {}
    /\ \E i \in 1..Len(last.before) : last.before[i].status # Pending
    /\ Len(last.body) = 1

\* C7: an update whose order id is empty or holds a character that is not a
\* decimal digit ends with 400 and without a repository call.
C7_DigitsOnly ==
    (last.op = "updateOrder" /\ last.parsed /\ ~IsDigitString(last.reqId)) =>
        /\ last.code = 400
        /\ last.calls = 0

\* C8: for a digit-only order id that updateOrder or getOrder hands to the
\* repository, the id handed over is the id without its leading zeros; the
\* update changes the stored order of that id and no other, and the lookup
\* returns the stored order of that id.
C8_IdCanonical ==
    (last.op \in {"updateOrder", "getOrder"} /\ last.calls = 1 /\ IsDigitString(last.reqId)) =>
        LET canon == StripLeadingZeros(last.reqId)
        IN  /\ last.repoId = canon
            /\ Len(last.repoId) > 1 => last.repoId[1] # "0"
            /\ (last.op = "updateOrder" /\ last.code = 202) =>
                  /\ HasOrder(last.before, canon)
                  /\ store = [i \in 1..Len(last.before) |->
                                 IF last.before[i].orderId = canon
                                 THEN [last.before[i] EXCEPT !.status = last.reqStatus]
                                 ELSE last.before[i]]
            /\ (last.op = "getOrder" /\ last.code = 200) =>
                  /\ Len(last.body) = 1
                  /\ last.body[1].orderId = canon
                  /\ \E i \in 1..Len(store) : store[i] = last.body[1]

\* C8: an update with order id "007" changed the stored order "7" while an
\* order "07" was stored too.
C8_Witness ==
    /\ last.op = "updateOrder"
    /\ last.reqId = <<"0", "0", "7">>
    /\ last.code = 202
    /\ \E i \in 1..Len(store) :
          /\ store[i].orderId = <<"7">>
          /\ store[i].status = last.reqStatus
          /\ last.before[i].status # last.reqStatus
    /\ HasOrder(store, <<"0", "7">>)

\* C9: an update that reaches the repository with an order id that is not
\* stored ends with 500, with NotFound unless the repository call itself
\* fails, and leaves storage as it was.
C9_NotFoundOnUpdate ==
    (last.op = "updateOrder" /\ last.calls = 1 /\ ~HasOrder(last.before, last.repoId)) =>
        /\ last.code = 500
        /\ last.fault = "none" => last.err = NotFound
        /\ store = last.before

\* C9: an update for an id never inserted failed with NotFound while other
\* orders were stored.
C9_Witness ==
    /\ last.op = "updateOrder"
    /\ last.calls = 1
    /\ ~HasOrder(last.before, last.repoId)
    /\ last.err = NotFound
    /\ Len(store) > 0

\* C10: an update that ends with 400 has made no repository call and leaves
\* storage as it was.
C10_ValidationBeforeWrite ==
    (last.op = "updateOrder" /\ last.code = 400) =>
        /\ last.calls = 0
        /\ store = last.before

\* C10: an update naming a stored order ended with 400.
C10_Witness ==
    /\ last.op = "updateOrder"
    /\ last.code = 400
    /\ last.parsed
    /\ HasOrder(last.before, last.reqId)

\* C11: a fetchOrders call whose queue poll fails ends with 500 having made
\* no repository call, inserted nothing and left storage as it was; one
\* whose insert fails ends with 500 without the pending query and without a
\* list; one whose pending query fails ends with 500 without a list.
C11_FailedStepAborts ==
    last.op = "fetchOrders" =>
        /\ last.fault = "queue" =>
              /\ last.code = 500
              /\ last.calls = 0
              /\ last.inserted = <<>>
              /\ last.body = <<>>
              /\ store = last.before
        /\ last.fault = "insert" =>
              /\ last.code = 500
              /\ last.calls = 1
              /\ last.body = <<>>
        /\ last.fault = "list" =>
              /\ last.code = 500
              /\ last.body = <<>>

\* C11: the insert of a non-empty batch failed while Pending orders were
\* stored, and the call ended with 500.
C11_Witness ==
    /\ last.op = "fetchOrders"
    /\ last.fault = "insert"
    /\ last.code = 500
    /\ Len(last.inserted) > 0
    /\ PendingIdsOf(store) # {}

\* C12: after an update that ended with 202, the same update (same order id
\* and status) applied again, the repository not failing, ends with 202 and
\* leaves storage as the first application left it.
C12_RepeatedPutIdempotent ==
    (last.op = "updateOrder" /\ last.code = 202) =>
        LET again == UpdateResult(store,
                                  [parsed |-> TRUE, orderId |-> last.reqId,
                                   status |-> last.reqStatus],
                                  FALSE)
        IN  /\ again.last.code = 202
            /\ again.store = store

\* C12: an update ended with 202 on an order that already carried the
\* requested status, storage being as it was before the call.
C12_Witness ==
    /\ last.op = "updateOrder"
    /\ last.code = 202
    /\ store = last.before
    /\ \E i \in 1..Len(store) :
          store[i].orderId = last.repoId /\ store[i].status = last.reqStatus

\* C13: no step removes a stored record or changes the order id of one: the
\* records stored before a step are still stored after it, in place and
\* with their ids.
C13_NeverDeletedIdsFixed ==
    [][ /\ Len(store') >= Len(store)
        /\ \A i \in 1..Len(store) : store'[i].orderId = store[i].orderId ]_vars

\* C13: an update changed the status of one of two stored orders.
C13_Witness ==
    /\ last.op = "updateOrder"
    /\ last.code = 202
    /\ Len(last.before) = 2
    /\ store # last.before
    /\ IdsOf(store) = IdsOf(last.before)

\* C14: the batch fetchOrders hands to InsertOrders is the polled batch,
\* order for order, with every status set to Pending, whatever status the
\* messages carried.
C14_IntakeStampsPending ==
    (last.op = "fetchOrders" /\ last.fault # "queue") =>
        /\ Len(last.inserted) = Len(last.polled)
        /\ \A i \in 1..Len(last.inserted) :
              /\ last.inserted[i].orderId = last.polled[i].orderId
              /\ last.inserted[i].status = Pending

\* C14: a batch whose messages carried Complete and New was handed to
\* InsertOrders.
C14_Witness ==
    /\ last.op = "fetchOrders"
    /\ last.code = 200
    /\ Len(last.inserted) = 2
    /\ last.polled[1].status = Complete
    /\ last.polled[2].status = New

\* C15: a fetchOrders call whose poll returns no message makes no insert,
\* leaves storage as it was and, unless the pending query fails, ends with
\* 200 and the list of exactly the stored Pending orders.
C15_EmptyBatch ==
    (last.op = "fetchOrders" /\ last.fault # "queue" /\ last.polled = <<>>) =>
        /\ last.inserted = <<>>
        /\ last.calls = 1
        /\ store = last.before
        /\ last.fault = "none" =>
              /\ last.code = 200
              /\ IdsOf(last.body) = PendingIdsOf(store)
              /\ Len(last.body) = Cardinality(PendingIdsOf(store))
              /\ \A i \in 1..Len(last.body) :
                    \E j \in 1..Len(store) : store[j] = last.body[i]

\* C15: a call with an empty batch listed a Pending order while an order
\* that is not Pending was stored too.
C15_Witness ==
    /\ last.op = "fetchOrders"
    /\ last.polled = <<>>
    /\ last.code = 200
    /\ Len(last.body) = 1
    /\ Len(store) = 2

C17_StoredIdsAddressable ==
    ( /\ last.op \in {"getOrder", "updateOrder"}
      /\ last.calls = 1
      /\ HasOrder(last.before, last.reqId) ) =>
        /\ last.repoId = last.reqId
        /\ last.err # NotFound

\* C18: after a fetchOrders call whose insert failed, every order of the
\* batch it pulled is still held by the queue for a later poll, or is
\* stored already.
C18_FailedIntakeKeepsMessages ==
    (last.op = "fetchOrders" /\ last.fault = "insert") =>
        \A i \in 1..Len(last.polled) :
            \/ \E k \in 1..Len(queue) : queue[k] = last.polled[i].orderId
            \/ HasOrder(store, last.polled[i].orderId)

\* C19: every stored order has status Pending, Processing or Complete; the
\* records an intake call adds are Pending, and an update that changes
\* storage writes Processing or Complete.
C19_NeverNew ==
    /\ \A i \in 1..Len(store) : store[i].status \in {Pending, Processing, Complete}
    /\ last.op = "fetchOrders" =>
          \A i \in 1..Len(store) : i > Len(last.before) => store[i].status = Pending
    /\ (last.op = "updateOrder" /\ store # last.before) =>
          last.reqStatus \in {Processing, Complete}

\* C19: intake stored a message that carried status New beside an order an
\* update had moved on.
C19_Witness ==
    /\ last.op = "fetchOrders"
    /\ last.code = 200
    /\ \E i \in 1..Len(last.polled) : last.polled[i].status = New
    /\ Len(store) = 2
    /\ Len(last.before) = 1
    /\ store[1].status \in {Processing, Complete}

====
